---- MODULE Spec2Model ----
(***************************************************************************)
(* Model of the foodgram backend (src/backend/api): the relational store   *)
(* (recipes, their tag and ingredient rows, favorites, shopping carts,     *)
(* subscriptions) and the HTTP handlers that act on it.  Every handler is  *)
(* a request run by one of NumProcs workers; a handler that issues several *)
(* database statements takes one step per statement, so requests           *)
(* interleave at statement granularity (Django's autocommit mode).         *)
(***************************************************************************)
EXTENDS Integers, Sequences, FiniteSets, TLC

\* ------------------------------------------------------------------ bounds

NumProcs == 2        \* concurrent request workers
NumUsers == 2        \* registered users
MaxRecipes == 2      \* recipe ids the primary key sequence hands out
NumTokens == 2       \* distinct outcomes of get_random_string in the model
MaxAmount == 2       \* largest ingredient amount submitted
MaxRows == 2         \* rows per key a table can physically hold

\* ------------------------------------------------------- program constants

ShortLinkMaxLength == 10     \* Recipe.short_link max_length
DefaultLength == 10          \* get_short_link(length=10)
DefaultAttempt == 10         \* get_short_link(attempt=10)

Procs == 1..NumProcs
Users == 1..NumUsers
Anonymous == 0
Actors == Users \cup {Anonymous}
RecipeIds == 1..MaxRecipes
Names == {"n1", "n2"}
Tags == {1}

\* Ingredient table (read-only for the API): id -> (name, measurement_unit).
\* The pair (name, measurement_unit) is unique; a name may occur under
\* several units.
Ingredient ==
    <<[name |-> "flour", measurement_unit |-> "g"],
      [name |-> "flour", measurement_unit |-> "kg"],
      [name |-> "egg", measurement_unit |-> "pc"]>>
IngredientIds == DOMAIN Ingredient

\* django.utils.crypto.get_random_string draws `length` characters; the
\* model lets the first character vary over NumTokens letters.
Alphabet == <<"a", "b", "c", "d", "e", "f">>
get_random_string(length) ==
    { [i \in 1..length |-> IF i = 1 THEN Alphabet[k] ELSE "a"] :
        k \in 1..NumTokens }

\* settings.SHORT_LINK_WRAPPER, the configured base prefix of a short link.
SHORT_LINK_WRAPPER == <<"h", "/", "s", "/">>

\* ------------------------------------------------------------------- state

VARIABLES
    recipes,             \* Recipe rows: id -> [author, name, short_link]
    recipe_tags,         \* Recipe.tags through rows: id -> set of tags
    recipe_ingredients,  \* RecipeIngredient rows: <<recipe, ingredient>> -> amount
    favorites,           \* Favorite rows: <<user, recipe>> -> number of rows
    shopping_cart,       \* ShoppingCart rows: <<user, recipe>> -> number of rows
    subscriptions,       \* Subscription rows: <<subscriber, author>> -> number of rows
    next_id,             \* next value of the Recipe primary key sequence
    pc,                  \* per worker: the statement its request executes next
    loc,                 \* per worker: the request's local variables
    resp                 \* the response sent last, and the user it went to

db == <<recipes, recipe_tags, recipe_ingredients, favorites, shopping_cart,
        subscriptions, next_id>>
membership == <<favorites, shopping_cart, subscriptions>>
vars == <<recipes, recipe_tags, recipe_ingredients, favorites, shopping_cart,
          subscriptions, next_id, pc, loc, resp>>

NoLink == <<>>
NoInstance == [id |-> 0, author |-> 0, name |-> "", short_link |-> NoLink]
NoLoc == [op |-> "none", user |-> 0, target |-> 0, tags |-> {},
          instance |-> NoInstance, attempt |-> 0, todo |-> <<>>]
NoResp == [user |-> 0, status |-> 0, detail |-> "none", body |-> <<>>,
           location |-> 0, rows |-> <<>>]

\* rest_framework Response / HttpResponse values the handlers return.
Response(status, detail) == [NoResp EXCEPT !.status = status, !.detail = detail]

Init ==
    /\ recipes = <<>>
    /\ recipe_tags = <<>>
    /\ recipe_ingredients = <<>>
    /\ favorites = [k \in Users \X RecipeIds |-> 0]
    /\ shopping_cart = [k \in Users \X RecipeIds |-> 0]
    /\ subscriptions = [k \in Users \X Users |-> 0]
    /\ next_id = 1
    /\ pc = [p \in Procs |-> "idle"]
    /\ loc = [p \in Procs |-> NoLoc]
    /\ resp = NoResp

\* ------------------------------------------------------------ store helpers

Restrict(f, S) == [x \in S |-> f[x]]

\* Recipe.objects.filter(short_link=short_link).exists()
short_link_exists(short_link) ==
    \E id \in DOMAIN recipes : recipes[id].short_link = short_link

\* unique=True on Recipe.short_link: would writing `short_link` to row `id`
\* (0 for a new row) violate the unique index?
short_link_unique_violation(id, short_link) ==
    \E other \in DOMAIN recipes \ {id} : recipes[other].short_link = short_link

\* The finish of a request: the response is sent and the worker is idle again.
Finish(p, user, r) ==
    /\ pc' = [pc EXCEPT ![p] = "idle"]
    /\ loc' = [loc EXCEPT ![p] = NoLoc]
    /\ resp' = [r EXCEPT !.user = user]

Goto(p, label, l) ==
    /\ pc' = [pc EXCEPT ![p] = label]
    /\ loc' = [loc EXCEPT ![p] = l]
    /\ resp' = NoResp

\* An exception no handler catches: DRF answers 500.
ServerError(detail) == Response(500, detail)

\* ----------------------------------------------------------------- recipes

\* RecipeCreateSerializer._check_ingredients: the list is not empty and no
\* ingredient occurs twice.
check_ingredients(ingredients) ==
    /\ ingredients # <<>>
    /\ \A i, j \in DOMAIN ingredients :
          i # j => ingredients[i].ingredient # ingredients[j].ingredient

\* RecipeCreateSerializer._check_tags (a set cannot repeat a tag).
check_tags(tags) == tags # {}

\* RecipeCreateSerializer.validate
validate_recipe(data) ==
    IF ~check_ingredients(data.ingredients) THEN "bad_ingredients"
    ELSE IF ~check_tags(data.tags) THEN "bad_tags"
    ELSE "ok"

\* Mutant: save generates a link on every call.
save_generates_always(instance) == TRUE

\* Recipe.save, line 174: a link is generated only for an instance without one.
save_generates(instance) == instance.short_link = NoLink

\* Where Recipe.save goes first: get_short_link, or straight to Model.save.
save(instance) == IF save_generates(instance) THEN "get_short_link" ELSE "db_save"

\* IsAuthorOrReadOnly (api/permissions.py): writing an object is its author's.
is_author(user, id) == recipes[id].author = user

\* The workers whose request has a Recipe row still to insert.
inserting == {q \in Procs : loc[q].op = "create" /\ loc[q].instance.id = 0}

\* POST /recipes/ up to Recipe.objects.create(**validated_data) entering
\* Recipe.save.
create(p, user, data) ==
    /\ pc[p] = "idle"
    /\ next_id + Cardinality(inserting) <= MaxRecipes
    /\ UNCHANGED db
    /\ IF user = Anonymous THEN Finish(p, user, Response(401, "not_authenticated"))
       ELSE IF validate_recipe(data) # "ok"
       THEN Finish(p, user, Response(400, validate_recipe(data)))
       ELSE LET instance == [NoInstance EXCEPT !.author = user,
                                               !.name = data.name]
            IN Goto(p, save(instance),
                    [NoLoc EXCEPT !.op = "create", !.user = user,
                                  !.tags = data.tags,
                                  !.todo = data.ingredients,
                                  !.instance = instance])

\* PATCH /recipes/{id}/ up to ModelSerializer.update calling instance.save():
\* get_object, the permission, validate, then setattr of the plain fields on
\* the loaded instance.
update(p, user, id, data) ==
    /\ pc[p] = "idle"
    /\ UNCHANGED db
    /\ IF user = Anonymous THEN Finish(p, user, Response(401, "not_authenticated"))
       ELSE IF id \notin DOMAIN recipes THEN Finish(p, user, Response(404, "not_found"))
       ELSE IF ~is_author(user, id) THEN Finish(p, user, Response(403, "forbidden"))
       ELSE IF validate_recipe(data) # "ok"
       THEN Finish(p, user, Response(400, validate_recipe(data)))
       ELSE LET instance == [id |-> id, author |-> recipes[id].author,
                             name |-> data.name,
                             short_link |-> recipes[id].short_link]
            IN Goto(p, save(instance),
                    [NoLoc EXCEPT !.op = "update", !.user = user, !.target = id,
                                  !.tags = data.tags,
                                  !.todo = data.ingredients,
                                  !.instance = instance])

\* Mutant: one iteration too many.
attempts_left_one_more(done) == done <= DefaultAttempt

\* for _ in range(attempt): is another iteration due after `done` of them?
attempts_left(done) == done < DefaultAttempt

\* One iteration of the loop of Recipe.get_short_link: a draw and the
\* existence query; the for-else raises ValueError when the attempts are used.
\* loc.attempt counts the iterations done; the counter dies with the loop.
get_short_link(p) ==
    /\ pc[p] = "get_short_link"
    /\ UNCHANGED db
    /\ IF ~attempts_left(loc[p].attempt)
       THEN Finish(p, loc[p].user, ServerError("ValueError"))
       ELSE \E short_link \in get_random_string(DefaultLength) :
              IF ~short_link_exists(short_link)
              THEN Goto(p, "db_save",
                        [loc[p] EXCEPT !.attempt = 0,
                                       !.instance.short_link = short_link])
              ELSE Goto(p, "get_short_link", [loc[p] EXCEPT !.attempt = @ + 1])

\* Mutant: the column without its unique index.
unique_short_link_dropped(id, short_link) == TRUE

\* The unique index on Recipe.short_link, as the INSERT or UPDATE of a row sees it.
unique_short_link(id, short_link) == ~short_link_unique_violation(id, short_link)

\* super().save(): UPDATE the row of the instance's pk, or INSERT when the
\* instance has no pk or the UPDATE matched no row.
db_save(p) ==
    /\ pc[p] = "db_save"
    /\ UNCHANGED <<recipe_ingredients, favorites, shopping_cart, subscriptions>>
    /\ LET instance == loc[p].instance
           row == [author |-> instance.author, name |-> instance.name,
                   short_link |-> instance.short_link]
           id == IF instance.id = 0 THEN next_id ELSE instance.id
       IN IF ~unique_short_link(instance.id, instance.short_link)
          THEN /\ UNCHANGED <<recipes, recipe_tags, next_id>>
               /\ Finish(p, loc[p].user, ServerError("IntegrityError"))
          ELSE /\ recipes' = [x \in DOMAIN recipes \cup {id} |->
                                 IF x = id THEN row ELSE recipes[x]]
               /\ recipe_tags' = [x \in DOMAIN recipes \cup {id} |->
                                 IF x \in DOMAIN recipe_tags
                                 THEN recipe_tags[x] ELSE {}]
               /\ next_id' = IF instance.id = 0 THEN next_id + 1 ELSE next_id
               /\ Goto(p, "tags_set", [loc[p] EXCEPT !.instance.id = id])

\* recipe.tags.set(tags); the through rows reference the recipe row.
tags_set(p) ==
    /\ pc[p] = "tags_set"
    /\ UNCHANGED <<recipes, recipe_ingredients, favorites, shopping_cart,
                   subscriptions, next_id>>
    /\ LET id == loc[p].instance.id
       IN IF id \notin DOMAIN recipes
          THEN /\ UNCHANGED recipe_tags
               /\ Finish(p, loc[p].user, ServerError("IntegrityError"))
          ELSE /\ recipe_tags' = [recipe_tags EXCEPT ![id] = loc[p].tags]
               /\ Goto(p, IF loc[p].op = "update" THEN "ingredients_delete"
                          ELSE "add_ingredients", loc[p])

\* recipe.ingredient_in_recipe.all().delete()
ingredients_delete(p) ==
    /\ pc[p] = "ingredients_delete"
    /\ UNCHANGED <<recipes, recipe_tags, favorites, shopping_cart,
                   subscriptions, next_id>>
    /\ recipe_ingredients' =
          Restrict(recipe_ingredients,
                   {k \in DOMAIN recipe_ingredients : k[1] # loc[p].instance.id})
    /\ Goto(p, "add_ingredients", loc[p])

\* One iteration of the loop of _add_ingredients: RecipeIngredient.objects.create
\* under the foreign key to the recipe and unique_recipe_ingredient; after the
\* last row the handler answers.
add_ingredients(p) ==
    /\ pc[p] = "add_ingredients"
    /\ UNCHANGED <<recipes, recipe_tags, favorites, shopping_cart,
                   subscriptions, next_id>>
    /\ LET id == loc[p].instance.id
           todo == loc[p].todo
       IN IF todo = <<>>
          THEN /\ UNCHANGED recipe_ingredients
               /\ Finish(p, loc[p].user, [Response(IF loc[p].op = "create" THEN 201 ELSE 200,
                                      "recipe") EXCEPT !.location = id])
          ELSE LET key == <<id, Head(todo).ingredient>>
               IN IF id \notin DOMAIN recipes \/ key \in DOMAIN recipe_ingredients
                  THEN /\ UNCHANGED recipe_ingredients
                       /\ Finish(p, loc[p].user, ServerError("IntegrityError"))
                  ELSE /\ recipe_ingredients' =
                             [k \in DOMAIN recipe_ingredients \cup {key} |->
                                IF k = key THEN Head(todo).amount
                                ELSE recipe_ingredients[k]]
                       /\ Goto(p, "add_ingredients",
                               [loc[p] EXCEPT !.todo = Tail(todo)])

\* Mutant: the cascade empties the table.
cascade_all(table, id) == [k \in DOMAIN table |-> 0]

\* on_delete=CASCADE of the rows that reference recipe `id`.
cascade(table, id) == [k \in DOMAIN table |-> IF k[2] = id THEN 0 ELSE table[k]]

\* DELETE /recipes/{id}/: get_object, the permission, instance.delete() with
\* its cascade (one transaction of the deletion collector).
destroy(p, user, id) ==
    /\ pc[p] = "idle"
    /\ UNCHANGED <<subscriptions, next_id>>
    /\ IF user = Anonymous \/ id \notin DOMAIN recipes \/ ~is_author(user, id)
       THEN /\ UNCHANGED <<recipes, recipe_tags, recipe_ingredients, favorites,
                           shopping_cart>>
            /\ Finish(p, user, IF user = Anonymous
                         THEN Response(401, "not_authenticated")
                         ELSE IF id \notin DOMAIN recipes
                         THEN Response(404, "not_found")
                         ELSE Response(403, "forbidden"))
       ELSE /\ recipes' = Restrict(recipes, DOMAIN recipes \ {id})
            /\ recipe_tags' = Restrict(recipe_tags, DOMAIN recipe_tags \ {id})
            /\ recipe_ingredients' =
                  Restrict(recipe_ingredients,
                           {k \in DOMAIN recipe_ingredients : k[1] # id})
            /\ favorites' = cascade(favorites, id)
            /\ shopping_cart' = cascade(shopping_cart, id)
            /\ Finish(p, user, Response(204, "deleted"))

\* -------------------------------------------------------------- short links

\* get_object_or_404(models.Recipe, short_link=short_link): the id found, or
\* the exception raised (Http404, or MultipleObjectsReturned of QuerySet.get).
get_object_or_404(short_link) ==
    LET found == {id \in DOMAIN recipes : recipes[id].short_link = short_link}
    IN IF found = {} THEN [exception |-> "Http404", id |-> 0]
       ELSE IF Cardinality(found) > 1
       THEN [exception |-> "MultipleObjectsReturned", id |-> 0]
       ELSE [exception |-> "none", id |-> CHOOSE id \in found : TRUE]

\* Mutant: the redirect built from the recipe's author id.
redirect_response_author(short_link) ==
    LET got == get_object_or_404(short_link)
    IN IF got.exception # "none"
       THEN Response(500, "redirect_failed")
       ELSE [Response(302, "redirect") EXCEPT !.location = recipes[got.id].author]

\* The body of redirect_to_recipe: `except Exception` catches whatever the
\* try block raises, Http404 included, and answers 500.
redirect_response(short_link) ==
    LET got == get_object_or_404(short_link)
    IN IF got.exception # "none"
       THEN Response(500, "redirect_failed")
       ELSE [Response(302, "redirect") EXCEPT !.location = got.id]

\* GET /s/{short_link}/
redirect_to_recipe(p, short_link) ==
    /\ pc[p] = "idle"
    /\ UNCHANGED db
    /\ Finish(p, Anonymous, redirect_response(short_link))

\* The body of RecipeViewSet.get_short_link for an existing recipe.
short_link_response(id) ==
    [Response(200, "short-link") EXCEPT
        !.body = SHORT_LINK_WRAPPER \o recipes[id].short_link]

\* GET /recipes/{id}/get-link/
get_link(p, id) ==
    /\ pc[p] = "idle"
    /\ UNCHANGED db
    /\ Finish(p, Anonymous, IF id \in DOMAIN recipes THEN short_link_response(id)
                 ELSE Response(404, "not_found"))

\* The token a client takes from a get-link answer: what follows the prefix.
token_of(body) == SubSeq(body, Len(SHORT_LINK_WRAPPER) + 1, Len(body))

\* -------------------------------------------------------------- memberships

Kinds == {"favorite", "shopping_cart", "subscription"}

Table(kind) ==
    CASE kind = "favorite" -> favorites
      [] kind = "shopping_cart" -> shopping_cart
      [] kind = "subscription" -> subscriptions

\* A table without rows.
Empty(table) == \A k \in DOMAIN table : table[k] = 0

SetTable(kind, new) ==
    /\ favorites' = IF kind = "favorite" THEN new ELSE favorites
    /\ shopping_cart' = IF kind = "shopping_cart" THEN new ELSE shopping_cart
    /\ subscriptions' = IF kind = "subscription" THEN new ELSE subscriptions

\* get_object_or_404 of the target: a recipe, or the author for a subscription.
target_exists(kind, target) ==
    IF kind = "subscription" THEN target \in Users ELSE target \in DOMAIN recipes

\* Mutant: validate without the existence query.
FavoriteValidateNoCheck(user, recipe) ==
    IF user = Anonymous THEN "auth_required" ELSE "ok"

\* FavoriteSerializer.validate
FavoriteValidate(user, recipe) ==
    IF user = Anonymous THEN "auth_required"
    ELSE IF favorites[<<user, recipe>>] > 0 THEN "already_exists"
    ELSE "ok"

\* ShoppingCartSerializer.validate
ShoppingCartValidate(user, recipe) ==
    IF user = Anonymous THEN "auth_required"
    ELSE IF shopping_cart[<<user, recipe>>] > 0 THEN "already_exists"
    ELSE "ok"

\* Mutant: validate without the comparison of subscriber and author.
SubscriptionValidateNoSelf(subscriber, author) ==
    IF subscriber = Anonymous THEN "auth_required"
    ELSE IF subscriptions[<<subscriber, author>>] > 0 THEN "already_exists"
    ELSE "ok"

\* SubscriptionSerializer.validate
SubscriptionValidate(subscriber, author) ==
    IF subscriber = Anonymous THEN "auth_required"
    ELSE IF subscriber = author THEN "self_subscribe"
    ELSE IF subscriptions[<<subscriber, author>>] > 0 THEN "already_exists"
    ELSE "ok"

validate(kind, user, target) ==
    CASE kind = "favorite" -> FavoriteValidate(user, target)
      [] kind = "shopping_cart" -> ShoppingCartValidate(user, target)
      [] kind = "subscription" -> SubscriptionValidate(user, target)

\* The view of an add (favorite, shopping_cart, subscribe) up to
\* serializer.save(): IsAuthenticated, get_object_or_404, is_valid.
add(p, kind, user, target) ==
    /\ pc[p] = "idle"
    /\ UNCHANGED db
    /\ IF user = Anonymous THEN Finish(p, user, Response(401, "not_authenticated"))
       ELSE IF ~target_exists(kind, target)
       THEN Finish(p, user, Response(404, "not_found"))
       ELSE IF validate(kind, user, target) # "ok"
       THEN Finish(p, user, Response(400, validate(kind, user, target)))
       ELSE Goto(p, "add_save", [NoLoc EXCEPT !.op = kind, !.user = user,
                                              !.target = target])

\* Mutant: the tables without their unique constraints.
insert_allowed_not_unique(kind, user, target) ==
    /\ target_exists(kind, target)
    /\ kind = "subscription" => user # target

\* The constraints of the three tables as an INSERT sees them: the unique
\* pair, the foreign keys and, for Subscription, the self_subscribe check.
insert_allowed(kind, user, target) ==
    /\ Table(kind)[<<user, target>>] = 0
    /\ target_exists(kind, target)
    /\ kind = "subscription" => user # target

\* serializer.save(): the INSERT of the row, then the 201 answer.
add_save(p) ==
    /\ pc[p] = "add_save"
    /\ Table(loc[p].op)[<<loc[p].user, loc[p].target>>] < MaxRows
    /\ UNCHANGED <<recipes, recipe_tags, recipe_ingredients, next_id>>
    /\ LET kind == loc[p].op
           key == <<loc[p].user, loc[p].target>>
       IN IF insert_allowed(kind, key[1], key[2])
          THEN /\ SetTable(kind, [Table(kind) EXCEPT ![key] = @ + 1])
               /\ Finish(p, loc[p].user, Response(201, "created"))
          ELSE /\ UNCHANGED membership
               /\ Finish(p, loc[p].user, ServerError("IntegrityError"))

\* Mutant: the DELETE matches no row.
delete_rows_kept(table, key) == table

\* QuerySet.delete() of the rows of the pair: the table left and the count.
delete_rows(table, key) == [table EXCEPT ![key] = 0]

\* Mutant: the count of the DELETE is not looked at.
remove_response_silent(delete_count) == Response(204, "removed")

\* `if not delete_count: raise ValidationError`, else 204.
remove_response(delete_count) ==
    IF delete_count = 0 THEN Response(400, "not_present")
    ELSE Response(204, "removed")

\* The view of a remove (delete_from_favorites, delete_from_shopping_cart,
\* unsubscribe): the DELETE and the test of its count.
remove(p, kind, user, target) ==
    /\ pc[p] = "idle"
    /\ UNCHANGED <<recipes, recipe_tags, recipe_ingredients, next_id>>
    /\ IF user = Anonymous \/ ~target_exists(kind, target)
       THEN /\ UNCHANGED membership
            /\ Finish(p, user, IF user = Anonymous
                         THEN Response(401, "not_authenticated")
                         ELSE Response(404, "not_found"))
       ELSE LET delete_count == Table(kind)[<<user, target>>]
            IN /\ SetTable(kind, delete_rows(Table(kind), <<user, target>>))
               /\ Finish(p, user, remove_response(delete_count))

\* The same views statement by statement.  First IsAuthenticated and
\* get_object_or_404 of the target.
remove_get(p, kind, user, target) ==
    /\ pc[p] = "idle"
    /\ UNCHANGED db
    /\ IF user = Anonymous THEN Finish(p, user, Response(401, "not_authenticated"))
       ELSE IF ~target_exists(kind, target)
       THEN Finish(p, user, Response(404, "not_found"))
       ELSE Goto(p, "remove_delete", [NoLoc EXCEPT !.op = kind, !.user = user,
                                                   !.target = target])

\* Then the DELETE statement, whose affected-row count decides the answer.
remove_delete(p) ==
    /\ pc[p] = "remove_delete"
    /\ UNCHANGED <<recipes, recipe_tags, recipe_ingredients, next_id>>
    /\ LET kind == loc[p].op
           key == <<loc[p].user, loc[p].target>>
           delete_count == Table(kind)[key]
       IN /\ SetTable(kind, delete_rows(Table(kind), key))
          /\ Finish(p, loc[p].user, remove_response(delete_count))

\* ------------------------------------------------------------ shopping list

\* Mutant: the join without the filter on the cart's user.
joined_rows_any_user(user) ==
    {k \in DOMAIN recipe_ingredients :
        \E u \in Users : shopping_cart[<<u, k[1]>>] > 0}

\* RecipeIngredient.objects.filter(recipe__shopping_cart__user=user): the
\* rows the inner join yields, a row once per matching ShoppingCart row.
joined_rows(user) ==
    {k \in DOMAIN recipe_ingredients : shopping_cart[<<user, k[1]>>] > 0}

\* .values('ingredient__name', 'ingredient__measurement_unit'): the group key.
group_of(k) == <<Ingredient[k[2]].name, Ingredient[k[2]].measurement_unit>>

\* Sum('amount') over a set of joined rows.
RECURSIVE Sum(_, _)
Sum(rows, user) ==
    IF rows = {} THEN 0
    ELSE LET k == CHOOSE x \in rows : TRUE
         IN recipe_ingredients[k] * shopping_cart[<<user, k[1]>>]
              + Sum(rows \ {k}, user)

\* Mutant: the rows grouped by the ingredient name alone.
annotate_by_name(user) ==
    { [ingredient__name |-> g[1],
       ingredient__measurement_unit |->
          group_of(CHOOSE k \in joined_rows(user) : group_of(k)[1] = g[1])[2],
       total_amount |-> Sum({k \in joined_rows(user) : group_of(k)[1] = g[1]}, user)] :
        g \in {group_of(k) : k \in joined_rows(user)} }

\* .annotate(total_amount=Sum('amount')): one row per group.
annotate(user) ==
    { [ingredient__name |-> g[1], ingredient__measurement_unit |-> g[2],
       total_amount |-> Sum({k \in joined_rows(user) : group_of(k) = g}, user)] :
        g \in {group_of(k) : k \in joined_rows(user)} }

\* Mutant: the emptiness of the result is not tested.
exists_always(ingredients) == TRUE

\* ingredients.exists()
exists(ingredients) == ingredients # {}

\* The orders in which the database may return the rows of a query that has
\* no ORDER BY.
Orders(S) ==
    {s \in [1..Cardinality(S) -> S] : \A x \in S : \E i \in DOMAIN s : s[i] = x}

\* csv.writer.writerow of one aggregated row.
writerow(ingredient) ==
    <<ingredient.ingredient__name, ingredient.total_amount,
      ingredient.ingredient__measurement_unit>>

\* GET /recipes/download_shopping_cart/
download_shopping_cart(p, user) ==
    /\ pc[p] = "idle"
    /\ UNCHANGED db
    /\ IF user = Anonymous THEN Finish(p, user, Response(401, "not_authenticated"))
       ELSE LET ingredients == annotate(user)
            IN IF ~exists(ingredients)
               THEN Finish(p, user, Response(400, "empty_cart"))
               ELSE \E order \in Orders(ingredients) :
                      Finish(p, user, [Response(200, "text/csv") EXCEPT
                                   !.rows = [i \in DOMAIN order |->
                                               writerow(order[i])]])

\* ------------------------------------------------------------ specification

Amounts == 1..MaxAmount

\* Tokens a client may ask the redirect for: any the generator can produce
\* and one that no recipe can carry.
RequestedLinks == get_random_string(DefaultLength) \cup {<<"z">>}

Targets(kind) == IF kind = "subscription" THEN Users ELSE RecipeIds

\* Recipe submissions of the short-link specification: a valid one under
\* each name, one without ingredients, one that repeats an ingredient and
\* one without tags.
LinkRecipeData ==
    LET one == <<[ingredient |-> 1, amount |-> 1]>>
    IN {[name |-> n, tags |-> Tags, ingredients |-> one] : n \in Names}
       \cup {[name |-> "n1", tags |-> Tags, ingredients |-> <<>>],
             [name |-> "n1", tags |-> Tags, ingredients |-> one \o one],
             [name |-> "n1", tags |-> {}, ingredients |-> one]}

\* The recipe handlers and the two short-link views, NumProcs requests at a
\* time.
LinkStep(p) ==
    \/ \E user \in Actors, data \in LinkRecipeData : create(p, user, data)
    \/ \E user \in Actors, id \in RecipeIds, data \in LinkRecipeData :
          update(p, user, id, data)
    \/ get_short_link(p)
    \/ db_save(p)
    \/ tags_set(p)
    \/ ingredients_delete(p)
    \/ add_ingredients(p)
    \/ \E user \in Actors, id \in RecipeIds : destroy(p, user, id)
    \/ \E short_link \in RequestedLinks : redirect_to_recipe(p, short_link)
    \/ \E id \in RecipeIds : get_link(p, id)

LinkNext == \E p \in Procs : LinkStep(p)

LinkSpec == Init /\ [][LinkNext]_vars

\* A store with MaxRecipes recipes, as creations leave it: recipe id is by
\* user id (the last one by the last user when there are more recipes than
\* users), each has its own link, the tags and one ingredient row.
PopulatedLinks ==
    [id \in RecipeIds |-> [i \in 1..DefaultLength |->
                             IF i = 1 THEN Alphabet[((id - 1) % NumTokens) + 1]
                             ELSE IF i = 2 THEN Alphabet[((id - 1) \div NumTokens) + 1]
                             ELSE "a"]]

PopulatedRecipes ==
    /\ recipes = [id \in RecipeIds |->
                    [author |-> IF id \in Users THEN id ELSE NumUsers,
                     name |-> "n1", short_link |-> PopulatedLinks[id]]]
    /\ recipe_tags = [id \in RecipeIds |-> Tags]
    /\ next_id = MaxRecipes + 1

Populated ==
    /\ PopulatedRecipes
    /\ recipe_ingredients = [k \in RecipeIds \X {1} |-> 1]

MemberInit ==
    /\ Populated
    /\ favorites = [k \in Users \X RecipeIds |-> 0]
    /\ shopping_cart = [k \in Users \X RecipeIds |-> 0]
    /\ subscriptions = [k \in Users \X Users |-> 0]
    /\ pc = [p \in Procs |-> "idle"]
    /\ loc = [p \in Procs |-> NoLoc]
    /\ resp = NoResp

\* The interleaved specification fills one table at a time: an add of one
\* kind starts while the tables of the other kinds are empty and no add of
\* another kind is under way (the three tables are disjoint, and no handler
\* of one kind reads the table of another).
Exercised(kind) ==
    /\ \A other \in Kinds \ {kind} : Empty(Table(other))
    /\ \A q \in Procs : pc[q] = "add_save" => loc[q].op = kind

MemberStep(p) ==
    \/ \E kind \in Kinds : \E user \in Actors, target \in Targets(kind) :
          Exercised(kind) /\ add(p, kind, user, target)
    \/ add_save(p)
    \/ \E kind \in Kinds : \E user \in Actors, target \in Targets(kind) :
          remove(p, kind, user, target)
    \/ \E user \in Actors, id \in RecipeIds : destroy(p, user, id)

\* Requests of NumProcs workers interleaved statement by statement.
MemberNext == \E p \in Procs : MemberStep(p)

MemberSpec == MemberInit /\ [][MemberNext]_vars

\* The membership handlers with a remove taking its two statements apart, so
\* that two removes can both be under way.
RemoveStep(p) ==
    \/ \E kind \in Kinds : \E user \in Actors, target \in Targets(kind) :
          Exercised(kind) /\ add(p, kind, user, target)
    \/ add_save(p)
    \/ \E kind \in Kinds : \E user \in Actors, target \in Targets(kind) :
          remove_get(p, kind, user, target)
    \/ remove_delete(p)
    \/ \E user \in Actors, id \in RecipeIds : destroy(p, user, id)

RemoveNext == \E p \in Procs : RemoveStep(p)

RemoveSpec == MemberInit /\ [][RemoveNext]_vars

\* The same handlers with the three kinds mixed freely.
MemberAllStep(p) ==
    \/ \E kind \in Kinds : \E user \in Actors, target \in Targets(kind) :
          add(p, kind, user, target)
    \/ add_save(p)
    \/ \E kind \in Kinds : \E user \in Actors, target \in Targets(kind) :
          remove(p, kind, user, target)
    \/ \E user \in Actors, id \in RecipeIds : destroy(p, user, id)

MemberAllNext == \E p \in Procs : MemberAllStep(p)

MemberAllSpec == MemberInit /\ [][MemberAllNext]_vars

\* One request at a time: a worker steps only while every other one is idle.
Alone(p) == \A q \in Procs \ {p} : pc[q] = "idle"

MemberSeqStep(p) ==
    \/ \E kind \in Kinds : \E user \in Actors, target \in Targets(kind) :
          Alone(p) /\ add(p, kind, user, target)
    \/ Alone(p) /\ add_save(p)
    \/ \E kind \in Kinds : \E user \in Actors, target \in Targets(kind) :
          Alone(p) /\ remove(p, kind, user, target)
    \/ \E user \in Actors, id \in RecipeIds : Alone(p) /\ destroy(p, user, id)

MemberSeqNext == \E p \in Procs : MemberSeqStep(p)

MemberSeqSpec == MemberInit /\ [][MemberSeqNext]_vars

\* The RecipeIngredient tables the recipe handlers can leave: any set of
\* (recipe, ingredient) rows, a recipe without rows included, each with an
\* amount a client submitted.
IngredientTables ==
    UNION {[rows -> Amounts] : rows \in SUBSET (RecipeIds \X IngredientIds)}

CartInit ==
    /\ PopulatedRecipes
    /\ recipe_ingredients \in IngredientTables
    /\ favorites = [k \in Users \X RecipeIds |-> 0]
    /\ shopping_cart = [k \in Users \X RecipeIds |-> 0]
    /\ subscriptions = [k \in Users \X Users |-> 0]
    /\ pc = [p \in Procs |-> "idle"]
    /\ loc = [p \in Procs |-> NoLoc]
    /\ resp = NoResp

\* The shopping-cart handlers and the download, one request at a time.
CartStep(p) ==
    \/ \E user \in Actors, target \in RecipeIds :
          Alone(p) /\ add(p, "shopping_cart", user, target)
    \/ Alone(p) /\ add_save(p)
    \/ \E user \in Actors, target \in RecipeIds :
          Alone(p) /\ remove(p, "shopping_cart", user, target)
    \/ \E user \in Actors : Alone(p) /\ download_shopping_cart(p, user)

CartNext == \E p \in Procs : CartStep(p)

CartSpec == CartInit /\ [][CartNext]_vars

\* A store whose two recipes share flour in grams and differ in the rest.
ReportInit ==
    /\ PopulatedRecipes
    /\ recipe_ingredients = [k \in {<<1, 1>>, <<1, 3>>, <<2, 1>>, <<2, 2>>} |->
                                IF k = <<1, 1>> \/ k = <<2, 2>> THEN 1 ELSE MaxAmount]
    /\ favorites = [k \in Users \X RecipeIds |-> 0]
    /\ shopping_cart = [k \in Users \X RecipeIds |-> 0]
    /\ subscriptions = [k \in Users \X Users |-> 0]
    /\ pc = [p \in Procs |-> "idle"]
    /\ loc = [p \in Procs |-> NoLoc]
    /\ resp = NoResp

\* The membership handlers of the three kinds and the download, one request
\* at a time.
ReportStep(p) ==
    \/ \E kind \in Kinds : \E user \in Actors, target \in Targets(kind) :
          Alone(p) /\ add(p, kind, user, target)
    \/ Alone(p) /\ add_save(p)
    \/ \E kind \in Kinds : \E user \in Actors, target \in Targets(kind) :
          Alone(p) /\ remove(p, kind, user, target)
    \/ \E user \in Actors : Alone(p) /\ download_shopping_cart(p, user)

ReportNext == \E p \in Procs : ReportStep(p)

ReportSpec == ReportInit /\ [][ReportNext]_vars

\* Recipe submissions of an update: a list of one ingredient and a list of
\* two others.
UpdateRecipeData ==
    {[name |-> "n2", tags |-> Tags, ingredients |-> l] :
        l \in {<<[ingredient |-> 1, amount |-> MaxAmount]>>,
               <<[ingredient |-> 2, amount |-> 1],
                 [ingredient |-> 3, amount |-> MaxAmount]>>}}

\* The populated store with recipe 1 in user 1's shopping cart.
UpdateInit ==
    /\ Populated
    /\ favorites = [k \in Users \X RecipeIds |-> 0]
    /\ shopping_cart = [k \in Users \X RecipeIds |->
                           IF k = <<1, 1>> THEN 1 ELSE 0]
    /\ subscriptions = [k \in Users \X Users |-> 0]
    /\ pc = [p \in Procs |-> "idle"]
    /\ loc = [p \in Procs |-> NoLoc]
    /\ resp = NoResp

\* Updates of the recipes and downloads, interleaved statement by statement.
UpdateStep(p) ==
    \/ \E user \in Actors, id \in RecipeIds, data \in UpdateRecipeData :
          update(p, user, id, data)
    \/ db_save(p)
    \/ tags_set(p)
    \/ ingredients_delete(p)
    \/ add_ingredients(p)
    \/ \E user \in Actors : download_shopping_cart(p, user)

UpdateNext == \E p \in Procs : UpdateStep(p)

UpdateSpec == UpdateInit /\ [][UpdateNext]_vars

\* The table of a kind in the next state.
TableNext(kind) ==
    CASE kind = "favorite" -> favorites'
      [] kind = "shopping_cart" -> shopping_cart'
      [] kind = "subscription" -> subscriptions'

\* The answer r is `expected`, whoever it went to.
Is(r, expected) == [r EXCEPT !.user = 0] = expected

\* The error taxonomy on the wire: a client error is a 4xx answer.
ClientError(r) == r.status \in 400..499

\* --------------------------------------------------- membership properties

\* C2: an add of a pair that is present is answered 400 "already exists" and
\* changes no table; an add of an absent pair passes validation and its
\* INSERT leaves exactly one row and answers 201 (one request at a time).
C2_AddAbsentOrPresent ==
    [][/\ \A p \in Procs, kind \in Kinds, user \in Users :
             \A target \in Targets(kind) :
                (add(p, kind, user, target) /\ target_exists(kind, target)
                    /\ ~(kind = "subscription" /\ user = target)) =>
                   IF Table(kind)[<<user, target>>] > 0
                   THEN /\ Is(resp', Response(400, "already_exists"))
                        /\ ClientError(resp')
                        /\ UNCHANGED membership
                   ELSE /\ pc'[p] = "add_save"
                        /\ loc'[p].op = kind
                        /\ <<loc'[p].user, loc'[p].target>> = <<user, target>>
       /\ \A p \in Procs :
             (pc[p] = "add_save" /\ pc'[p] = "idle") =>
                LET kind == loc[p].op
                    key == <<loc[p].user, loc[p].target>>
                IN /\ Table(kind)[key] = 0
                   /\ resp'.status = 201
                   /\ TableNext(kind) = [Table(kind) EXCEPT ![key] = 1]
                   /\ \A other \in Kinds \ {kind} : TableNext(other) = Table(other)]_vars

\* A second add has just been refused while each of the three tables holds a row.
C2_Witness ==
    /\ Is(resp, Response(400, "already_exists"))
    /\ \A kind \in Kinds : ~Empty(Table(kind))

\* C3: a remove of an absent pair is answered with the client error "not
\* present" and changes no table; a remove of a present pair is answered 204
\* and leaves the pair absent and every other pair as it was.
C3_RemoveAbsentOrPresent ==
    [][\A p \in Procs, kind \in Kinds, user \in Users :
          \A target \in Targets(kind) :
             (remove(p, kind, user, target) /\ target_exists(kind, target)) =>
                IF Table(kind)[<<user, target>>] = 0
                THEN /\ Is(resp', Response(400, "not_present"))
                     /\ ClientError(resp')
                     /\ UNCHANGED membership
                ELSE /\ resp'.status = 204
                     /\ TableNext(kind) = [Table(kind) EXCEPT ![<<user, target>>] = 0]
                     /\ \A other \in Kinds \ {kind} : TableNext(other) = Table(other)]_vars

\* A remove of an absent pair has just been refused while other pairs are
\* present and the other worker is in the middle of an add.
C3_Witness ==
    /\ Is(resp, Response(400, "not_present"))
    /\ \E kind \in Kinds : ~Empty(Table(kind))
    /\ \E p \in Procs : pc[p] = "add_save"

\* C4: an add of a subscription of a user to themself is answered 400
\* "self subscribe" and writes nothing, and no Subscription row ever has
\* subscriber = author.
C4_NoSelfSubscription ==
    /\ \A actor \in Users : subscriptions[<<actor, actor>>] = 0
    /\ [][(\A actor \in Users : subscriptions'[<<actor, actor>>] = 0)
           /\ (\A p \in Procs, user \in Users :
                 add(p, "subscription", user, user) =>
                    (Is(resp', Response(400, "self_subscribe")) /\ UNCHANGED db))]_vars

\* A self-subscription has just been refused while a subscription exists.
C4_Witness ==
    /\ Is(resp, Response(400, "self_subscribe"))
    /\ ~Empty(subscriptions)

\* ---------------------------------------------------- aggregation properties

\* The recipes in a user's shopping cart.
C5_CartRecipes(user) == {r \in RecipeIds : shopping_cart[<<user, r>>] > 0}

\* The amount of the ingredient called (name, unit) in recipe r, 0 without a row.
C5_AmountIn(r, name, unit) ==
    LET ids == {i \in IngredientIds :
                  /\ Ingredient[i].name = name
                  /\ Ingredient[i].measurement_unit = unit
                  /\ <<r, i>> \in DOMAIN recipe_ingredients}
    IN IF ids = {} THEN 0 ELSE recipe_ingredients[<<r, CHOOSE i \in ids : TRUE>>]

\* The sum of the amounts of (name, unit) over recipes 1..n of the cart.
RECURSIVE C5_TotalUpTo(_, _, _, _)
C5_TotalUpTo(n, user, name, unit) ==
    IF n = 0 THEN 0
    ELSE (IF n \in C5_CartRecipes(user) THEN C5_AmountIn(n, name, unit) ELSE 0)
           + C5_TotalUpTo(n - 1, user, name, unit)

\* The (name, unit) pairs that occur in a recipe of the user's cart.
C5_Pairs(user) ==
    {<<Ingredient[i].name, Ingredient[i].measurement_unit>> :
        i \in {i \in IngredientIds :
                 \E r \in C5_CartRecipes(user) : <<r, i>> \in DOMAIN recipe_ingredients}}

\* C5: a report answered by a download has exactly one row per (name, unit)
\* pair occurring in a recipe of the user's cart, and the row's amount is the
\* sum of that pair's amounts over the cart's recipes.  (A download changes
\* no table and every step replaces resp, so a state whose resp is a report
\* is the state the report was computed from.)
C5_AggregateCart ==
    resp.detail = "text/csv" =>
       LET rows == resp.rows
           user == resp.user
       IN /\ resp.status = 200
          /\ Len(rows) = Cardinality(C5_Pairs(user))
          /\ \A pair \in C5_Pairs(user) :
                \E i \in DOMAIN rows :
                   rows[i] = <<pair[1],
                               C5_TotalUpTo(MaxRecipes, user, pair[1], pair[2]),
                               pair[2]>>
          /\ \A i \in DOMAIN rows : <<rows[i][1], rows[i][3]>> \in C5_Pairs(user)

\* A report of three rows has just been answered to a user whose cart holds
\* both recipes, which share flour in grams: amounts 1 and 2 give the row flour, 3, g.
C5_Witness ==
    /\ resp.status = 200
    /\ Len(resp.rows) = 3
    /\ \E i \in DOMAIN resp.rows : resp.rows[i] = <<"flour", 3, "g">>
    /\ C5_CartRecipes(resp.user) = RecipeIds
    /\ <<1, 1>> \in DOMAIN recipe_ingredients
    /\ <<2, 1>> \in DOMAIN recipe_ingredients
    /\ recipe_ingredients[<<1, 1>>] = 1
    /\ recipe_ingredients[<<2, 1>>] = 2

\* C6: a download for a user whose cart has no recipe, or only recipes
\* without ingredient rows, is answered 400 "empty cart": a client error,
\* not a server error and not a report.
C6_EmptyCart ==
    [][\A p \in Procs, user \in Users :
          (resp'.user = user /\ C5_Pairs(user) = {}
              /\ download_shopping_cart(p, user)) =>
             /\ Is(resp', Response(400, "empty_cart"))
             /\ ClientError(resp')]_vars

\* The empty-cart answer has just been given to a user whose cart holds
\* recipes, each without ingredient rows.
C6_Witness ==
    /\ Is(resp, Response(400, "empty_cart"))
    /\ C5_CartRecipes(resp.user) # {}
    /\ C5_Pairs(resp.user) = {}

\* --------------------------------------------------- short-link properties

\* C1: every persisted recipe has a short_link that is not empty, has at most
\* 10 characters and differs from the short_link of every other persisted
\* recipe, whatever creations, updates and deletions interleaved before.
C1_ShortLinkUnique ==
    \A id \in DOMAIN recipes :
        /\ recipes[id].short_link # NoLink
        /\ Len(recipes[id].short_link) <= ShortLinkMaxLength
        /\ \A other \in DOMAIN recipes \ {id} :
              recipes[other].short_link # recipes[id].short_link

\* Two recipes are persisted and a racing creation has just lost on the index.
C1_Witness ==
    /\ Cardinality(DOMAIN recipes) = 2
    /\ resp.detail = "IntegrityError"

\* C7: resolving a short link that no persisted recipe carries answers
\* not-found, a client error, and not a server fault.
C7_MissingLinkIsNotFound ==
    [][\A p \in Procs, short_link \in RequestedLinks :
          (redirect_to_recipe(p, short_link) /\ ~short_link_exists(short_link))
             => ClientError(resp')]_vars

\* C8: for every persisted recipe R the token taken from the get-link answer
\* (what follows the base prefix) resolves to a redirect built from R's id.
C8_RoundTrip ==
    \A id \in DOMAIN recipes :
        LET answer == redirect_response(token_of(short_link_response(id).body))
        IN answer.status = 302 /\ answer.location = id

\* A redirect was answered while two recipes are persisted under two authors.
C8_Witness ==
    /\ resp.status = 302
    /\ Cardinality(DOMAIN recipes) = 2
    /\ \E id \in DOMAIN recipes : recipes[id].author # id

\* C9: generation fails with ValueError exactly when DefaultAttempt draws were
\* made and each collided: a colliding draw is never accepted, each draw adds
\* one to the count, and no draw is made beyond the DefaultAttempt-th.
C9_ExactlyMaxAttempts ==
    [][\A p \in Procs :
          (pc[p] = "get_short_link" /\ <<pc[p], loc[p]>>' # <<pc[p], loc[p]>>) =>
             /\ loc[p].attempt <= DefaultAttempt
             /\ (pc'[p] = "idle") <=> (loc[p].attempt = DefaultAttempt)
             /\ pc'[p] = "idle" =>
                   Is(resp', ServerError("ValueError"))
             /\ pc'[p] = "db_save" =>
                   ~short_link_exists(loc'[p].instance.short_link)
             /\ pc'[p] = "get_short_link" =>
                   /\ loc'[p].attempt = loc[p].attempt + 1
                   /\ recipes # <<>>]_vars

\* A generation has just failed: all its draws collided.
C9_Witness == resp.detail = "ValueError"

\* C10: a persisted recipe's short_link never changes, generation runs only
\* for an instance that was never persisted and has no link, and an instance
\* loaded for an update carries the link of its row.
C10_ShortLinkImmutable ==
    [][/\ \A id \in DOMAIN recipes \cap DOMAIN recipes' :
             recipes'[id].short_link = recipes[id].short_link
       /\ \A p \in Procs :
             /\ pc'[p] = "get_short_link" =>
                   /\ loc'[p].instance.id = 0
                   /\ loc'[p].instance.short_link = NoLink
             /\ (loc'[p].instance.id \in DOMAIN recipes') =>
                   loc'[p].instance.short_link =
                      recipes'[loc'[p].instance.id].short_link]_vars

\* An update has just been answered and the recipe carries the new name.
C10_Witness ==
    /\ resp.status = 200
    /\ resp.detail = "recipe"
    /\ resp.location \in DOMAIN recipes
    /\ recipes[resp.location].name = "n2"

\* --------------------------------------------------- concurrency properties

\* C11: of two adds of the same absent pair that both passed validation, the
\* one whose INSERT comes first is answered 201 and the other is answered
\* with a client error (already exists); an INSERT that finds the pair
\* present never answers a success nor a server fault.
C11_ConcurrentAddOneSuccess ==
    [][\A p \in Procs :
          (pc[p] = "add_save" /\ pc'[p] = "idle"
              /\ target_exists(loc[p].op, loc[p].target)) =>
             IF Table(loc[p].op)[<<loc[p].user, loc[p].target>>] = 0
             THEN resp'.status = 201
             ELSE ClientError(resp') /\ UNCHANGED membership]_vars

\* C12: each of the three relations holds at most one row per pair in every
\* reachable state, whatever adds, removes and recipe deletions interleave.
C12_AtMostOneRow ==
    \A kind \in Kinds : \A key \in DOMAIN Table(kind) : Table(kind)[key] <= 1

\* An INSERT that slipped past validation has just been rejected by the
\* unique constraint: every recipe exists, the user's pair is present once.
C12_Witness ==
    /\ Is(resp, ServerError("IntegrityError"))
    /\ DOMAIN recipes = RecipeIds
    /\ \E kind \in Kinds : \E target \in Targets(kind) :
          Table(kind)[<<resp.user, target>>] = 1

\* ----------------------------------------------------- atomicity properties

\* C13: a creation that fails after its Recipe row was inserted leaves no
\* Recipe row and no association row of that recipe behind, and no state
\* shows a persisted recipe without its tags or without ingredient rows.
C13_CreateAllOrNothing ==
    [][/\ \A p \in Procs :
             (loc[p].op = "create" /\ loc[p].instance.id # 0
                 /\ pc'[p] = "idle" /\ resp'.status # 201) =>
                /\ loc[p].instance.id \notin DOMAIN recipes'
                /\ \A k \in DOMAIN recipe_ingredients' : k[1] # loc[p].instance.id
       /\ \A id \in DOMAIN recipes' :
             /\ recipe_tags'[id] # {}
             /\ \E k \in DOMAIN recipe_ingredients' : k[1] = id]_vars

\* ------------------------------------------------------ lifecycle properties

\* The step inserts the row of pair `key` of `kind`: the INSERT of an add by
\* the authenticated user key[1] for target key[2].
C14_AddedByActor(kind, key) ==
    \E p \in Procs :
        /\ pc[p] = "add_save" /\ pc'[p] = "idle"
        /\ loc[p].op = kind
        /\ <<loc[p].user, loc[p].target>> = key
        /\ key[1] \in Users

\* The step is a remove of pair `key` of `kind` by user key[1].
C14_RemovedByActor(kind, key) ==
    \E p \in Procs : remove(p, kind, key[1], key[2])

\* The step is the deletion of recipe key[2], the target of the pair, by its
\* author.
C14_TargetDeleted(kind, key) ==
    /\ kind # "subscription"
    /\ key[2] \in DOMAIN recipes /\ key[2] \notin DOMAIN recipes'
    /\ \E p \in Procs : destroy(p, recipes[key[2]].author, key[2])

\* C14 as stated: a pair becomes present only by the INSERT of an add of its
\* own actor and becomes absent only by a remove of that same actor; no
\* other step, a recipe deletion included, makes a present pair absent.
C14_OnlyExplicitRemove ==
    [][membership' # membership =>
          \A kind \in Kinds : \A key \in DOMAIN Table(kind) :
             /\ (Table(kind)[key] = 0 /\ TableNext(kind)[key] > 0) =>
                   C14_AddedByActor(kind, key)
             /\ (Table(kind)[key] > 0 /\ TableNext(kind)[key] = 0) =>
                   C14_RemovedByActor(kind, key)]_vars

\* C14 amended: a pair becomes present only by the INSERT of an add of its
\* own actor, and becomes absent only by a remove of that same actor or by
\* the deletion of the recipe it references (on_delete=CASCADE).
C14_RemoveOrCascade ==
    [][membership' # membership =>
          \A kind \in Kinds : \A key \in DOMAIN Table(kind) :
             /\ (Table(kind)[key] = 0 /\ TableNext(kind)[key] > 0) =>
                   C14_AddedByActor(kind, key)
             /\ (Table(kind)[key] > 0 /\ TableNext(kind)[key] = 0) =>
                   (C14_RemovedByActor(kind, key) \/ C14_TargetDeleted(kind, key))]_vars

\* Recipe 1 has just been deleted by its author; the pairs of both users on
\* recipe 2 and a subscription outlived the deletion.
C14_Witness ==
    /\ Is(resp, Response(204, "deleted"))
    /\ DOMAIN recipes = {2}
    /\ favorites[<<1, 2>>] = 1
    /\ shopping_cart[<<2, 2>>] = 1
    /\ ~Empty(subscriptions)

\* ----------------------------------------------------- shopping-list reads

\* C15: two downloads answered one after the other to the same user, with no
\* write to the store between them, carry the same sequence of rows.
C15_DeterministicOrder ==
    [][(/\ resp.detail = "text/csv" /\ resp'.detail = "text/csv"
        /\ resp'.user = resp.user
        /\ UNCHANGED db) => resp'.rows = resp.rows]_vars

\* ------------------------------------------------------- short-link races

\* C16: a creation whose drawn link passed the existence query but is
\* rejected by the unique index at its INSERT fails with the error of an
\* exhausted generation (ValueError), writes nothing, and leaves every
\* persisted recipe with its link.
C16_RaceLoserLinkGenerationFailed ==
    [][\A p \in Procs :
          (pc[p] = "db_save" /\ loc[p].op = "create" /\ pc'[p] = "idle") =>
             /\ Is(resp', ServerError("ValueError"))
             /\ UNCHANGED db]_vars

\* ----------------------------------------------------------- remove races

\* C17: the DELETE of a remove is answered by its affected-row count: 204
\* with the pair absent when it found the row, the 400 "not present" with no
\* table changed when it found none.  Of two removes of the same present
\* pair that are both under way, the first DELETE is the one success and
\* leaves the pair absent with the other remove still to run its DELETE,
\* which then finds no row.
C17_ConcurrentRemoveOneSuccess ==
    [][\A p \in Procs :
          (pc[p] = "remove_delete" /\ pc'[p] = "idle") =>
             LET kind == loc[p].op
                 key == <<loc[p].user, loc[p].target>>
             IN IF Table(kind)[key] > 0
                THEN /\ Is(resp', Response(204, "removed"))
                     /\ resp'.user = key[1]
                     /\ TableNext(kind) = [Table(kind) EXCEPT ![key] = 0]
                     /\ \A q \in Procs \ {p} :
                           (pc[q] = "remove_delete" /\ loc[q] = loc[p]) =>
                              /\ pc'[q] = "remove_delete" /\ loc'[q] = loc[q]
                              /\ TableNext(loc[q].op)[<<loc[q].user, loc[q].target>>] = 0
                ELSE /\ Is(resp', Response(400, "not_present"))
                     /\ resp'.user = key[1]
                     /\ UNCHANGED membership]_vars

\* User 1's remove of the subscription to user 2 has just succeeded while a
\* second remove of the same pair, begun before, still has its DELETE to
\* run; user 2's subscription shows the table was the one in use.
C17_Witness ==
    /\ Is(resp, Response(204, "removed"))
    /\ resp.user = 1
    /\ subscriptions[<<1, 2>>] = 0
    /\ subscriptions[<<2, 1>>] = 1
    /\ \E q \in Procs :
          /\ pc[q] = "remove_delete"
          /\ loc[q].op = "subscription"
          /\ <<loc[q].user, loc[q].target>> = <<1, 2>>

\* ------------------------------------------------- shopping-list dependence

\* The (name, unit) pairs of the Ingredient table.
C18_Groups ==
    {<<Ingredient[i].name, Ingredient[i].measurement_unit>> : i \in IngredientIds}

\* The total the aggregation gives user for pair g, 0 without a row.
C18_Total(user, g) ==
    LET found == {x \in annotate(user) :
                    <<x.ingredient__name, x.ingredient__measurement_unit>> = g}
    IN IF found = {} THEN 0 ELSE (CHOOSE x \in found : TRUE).total_amount

\* The user's own ShoppingCart rows.
C18_CartOf(user) == [r \in RecipeIds |-> shopping_cart[<<user, r>>]]

\* C18: the aggregation for a user is the same before and after every step
\* that writes a membership table and leaves the user's own cart rows as
\* they were (adds and removes of other users, the user's own favorite and
\* subscription requests); a step
\* that takes recipe r out of the user's cart leaves no row of r in the join
\* and takes r's amounts out of every total; and a report answered to the
\* user carries exactly the rows of the aggregation.
C18_DependsOnOwnCart ==
    [][\A user \in Users :
          /\ (membership' # membership /\ C18_CartOf(user)' = C18_CartOf(user)
                 /\ UNCHANGED recipe_ingredients)
                => annotate(user)' = annotate(user)
          /\ \A r \in RecipeIds :
                (shopping_cart[<<user, r>>] > 0 /\ shopping_cart'[<<user, r>>] = 0) =>
                   /\ \A k \in joined_rows(user)' : k[1] # r
                   /\ \A g \in C18_Groups :
                         C18_Total(user, g)' =
                            C18_Total(user, g) - C5_AmountIn(r, g[1], g[2])
          /\ (resp'.detail = "text/csv" /\ resp'.user = user) =>
                {resp'.rows[i] : i \in DOMAIN resp'.rows} =
                   {writerow(x) : x \in annotate(user)}]_vars

\* A report of recipe 1 alone has just been answered to user 1, whose cart
\* holds recipe 1, while user 2's cart holds recipe 2 and user 1 has a
\* favorite and a subscription.
C18_Witness ==
    /\ resp.detail = "text/csv" /\ resp.user = 1
    /\ {resp.rows[i] : i \in DOMAIN resp.rows} =
          {<<"flour", 1, "g">>, <<"egg", MaxAmount, "pc">>}
    /\ C18_CartOf(1) = [r \in RecipeIds |-> IF r = 1 THEN 1 ELSE 0]
    /\ shopping_cart[<<2, 2>>] = 1
    /\ favorites[<<1, 2>>] = 1
    /\ subscriptions[<<1, 2>>] = 1

\* ------------------------------------------------------- update atomicity

\* The ingredient rows of recipe id: ingredient -> amount.
C19_Rows(id) ==
    [i \in {i \in IngredientIds : <<id, i>> \in DOMAIN recipe_ingredients} |->
        recipe_ingredients[<<id, i>>]]

\* The rows a submitted ingredient list stands for.
C19_Submitted(ingredients) ==
    [i \in {ingredients[n].ingredient : n \in DOMAIN ingredients} |->
        (CHOOSE x \in {ingredients[n] : n \in DOMAIN ingredients} :
            x.ingredient = i).amount]

\* C19: every step that changes the ingredient rows of a recipe is a step of
\* an update of that recipe and leaves the complete submitted list in place
\* of the old one, so that no state between shows an empty or partly
\* rebuilt list; and a download by a user whose cart holds a recipe is never
\* answered as an empty cart.
C19_UpdateIndivisible ==
    [][/\ \A id \in DOMAIN recipes :
             C19_Rows(id)' # C19_Rows(id) =>
                \E p \in Procs :
                   /\ loc[p].op = "update" /\ loc[p].instance.id = id
                   /\ C19_Rows(id)' = C19_Submitted(loc[p].todo)
       /\ \A user \in Users :
             (resp'.user = user /\ resp'.detail = "empty_cart") =>
                C5_CartRecipes(user) = {}]_vars

====
